---- MODULE Spec2Model ----
(***************************************************************************)
(* Model of Challenge_1a/process_pdfs_improved.py: title and outline       *)
(* extraction from a parsed PDF, and the batch driver that writes one      *)
(* JSON result per document.                                               *)
(*                                                                         *)
(* Strings are sequences of one-character strings, so strip(), lower(),    *)
(* re.sub() and str.replace() are computed character by character.         *)
(***************************************************************************)
EXTENDS Integers, Sequences, FiniteSets, TLC

VARIABLES
    pc,             \* control point of the function or loop being run
    spans_data,     \* argument of detect_heading_levels
    level_mapping,  \* its result
    args,           \* arguments of is_likely_heading
    ret,            \* its result
    doc,            \* the document handed to the extract_* functions
    title,          \* outcome of extract_title_from_pdf
    outline,        \* outcome of extract_outline_from_pdf
    open_handles,   \* fitz documents opened and not closed
    dir,            \* input directory: file name -> document
    todo,           \* names os.listdir has still to yield
    cur,            \* name being processed by process_single_pdf
    files,          \* output directory: file name -> content on disk
    emitted,        \* name -> the result its process_single_pdf call wrote out
    returned,       \* name -> the value its process_single_pdf call returned
    io_errors,      \* names whose call met a failing open() or json.dump()
    processed_count,
    error_count

fn_vars == <<spans_data, level_mapping, args, ret>>

batch_vars ==
    <<dir, todo, cur, files, emitted, returned, io_errors, processed_count, error_count>>

vars ==
    <<pc, spans_data, level_mapping, args, ret, doc, title, outline, open_handles,
      dir, todo, cur, files, emitted, returned, io_errors, processed_count, error_count>>

\* ------------------------------------------------------------- bounds

\* Largest font size drawn for detect_heading_levels (sizes 0..MaxSize).
MaxSize == 7

\* Largest font size used as a key of the level maps given to is_likely_heading.
MaxKey == 2

\* ------------------------------------------------- program constants

MaxHeadingLevels == 6
MaxHeadingLen == 200
BoldMinLen == 5
BoldMaxLen == 100

\* ------------------------------------------------------------ strings

UpperChars ==
    <<"A","B","C","D","E","F","G","H","I","J","K","L","M",
      "N","O","P","Q","R","S","T","U","V","W","X","Y","Z">>

LowerChars ==
    <<"a","b","c","d","e","f","g","h","i","j","k","l","m",
      "n","o","p","q","r","s","t","u","v","w","x","y","z">>

DigitChars == {"0","1","2","3","4","5","6","7","8","9"}

WhitespaceChars == {" ", "\t", "\n"}

Range(s) == {s[i] : i \in DOMAIN s}

IsSpace(c) == c \in WhitespaceChars
IsUpper(c) == c \in Range(UpperChars)
IsLower(c) == c \in Range(LowerChars)
IsDigit(c) == c \in DigitChars

SetMin(S) == CHOOSE x \in S : \A y \in S : x <= y
SetMax(S) == CHOOSE x \in S : \A y \in S : x >= y

\* n copies of the character c
Rep(c, n) == [i \in 1..n |-> c]

\* str.strip(): leading and trailing whitespace removed
Strip(s) ==
    LET idx == {i \in 1..Len(s) : ~IsSpace(s[i])}
    IN  IF idx = {} THEN <<>> ELSE SubSeq(s, SetMin(idx), SetMax(idx))

LowerChar(c) ==
    IF IsUpper(c)
    THEN LowerChars[CHOOSE i \in DOMAIN UpperChars : UpperChars[i] = c]
    ELSE c

\* str.lower()
Lower(s) == [i \in 1..Len(s) |-> LowerChar(s[i])]

\* re.sub(r'\s+', ' ', text): every maximal run of whitespace becomes one space
CollapseWs(s) ==
    LET keep == {i \in 1..Len(s) : ~(IsSpace(s[i]) /\ i > 1 /\ IsSpace(s[i-1]))}
        nth(k) == CHOOSE i \in keep : Cardinality({j \in keep : j <= i}) = k
    IN  [k \in 1..Cardinality(keep) |->
            IF IsSpace(s[nth(k)]) THEN " " ELSE s[nth(k)]]

StartsWith(s, p) == Len(s) >= Len(p) /\ SubSeq(s, 1, Len(p)) = p
EndsWith(s, p) == Len(s) >= Len(p) /\ SubSeq(s, Len(s) - Len(p) + 1, Len(s)) = p

\* `sub in s` for strings
Contains(s, sub) ==
    \E i \in 0..(Len(s) - Len(sub)) : SubSeq(s, i + 1, i + Len(sub)) = sub

\* ---------------------------------------------------------- font sizes

\* A span's "size": a number, missing (None), or a value that is no number (a str,
\* named by its rank among the strings: rank 0 is the empty string).
Num(v) == [kind |-> "num", val |-> v]
NoneSize == [kind |-> "none", val |-> 0]
StrSize(rank) == [kind |-> "str", val |-> rank]

\* Python truthiness of a size: None, 0 and "" are falsy.
Truthy(size) == size.kind # "none" /\ size.val # 0

\* ---------------------------------------------- detect_heading_levels

\* sorted(set(font_sizes), reverse=True)
RECURSIVE SortDesc(_)
SortDesc(S) ==
    IF S = {} THEN <<>>
    ELSE LET m == CHOOSE x \in S : \A y \in S : x.val >= y.val
         IN  <<m>> \o SortDesc(S \ {m})

Take(s, n) == SubSeq(s, 1, IF Len(s) < n THEN Len(s) ELSE n)

\* the if/elif chain over enumerate(unique_sizes[:6])
LevelLabel(i) ==
    CASE i = 0 -> "H1"
      [] i = 1 -> "H2"
      [] i = 2 -> "H3"
      [] i = 3 -> "H4"
      [] i = 4 -> "H5"
      [] OTHER -> "H6"

EmptyMap == [s \in {} |-> "H1"]

\* sorted() raises TypeError when it has to order a str and a number
DetectRaises(spans) ==
    \E i, j \in DOMAIN spans :
        /\ Truthy(spans[i].font_size) /\ Truthy(spans[j].font_size)
        /\ spans[i].font_size.kind # spans[j].font_size.kind

DetectHeadingLevels(spans) ==
    LET font_sizes == SelectSeq([i \in 1..Len(spans) |-> spans[i].font_size], Truthy)
        unique_sizes == Take(SortDesc(Range(font_sizes)), MaxHeadingLevels)
    IN  IF font_sizes = <<>> THEN EmptyMap
        ELSE [s \in Range(unique_sizes) |->
                LevelLabel((CHOOSE i \in DOMAIN unique_sizes : unique_sizes[i] = s) - 1)]

\* --------------------------------------------------- is_likely_heading

Word_Chapter == <<"C","h","a","p","t","e","r">>
Word_Section == <<"S","e","c","t","i","o","n">>
Word_Part == <<"P","a","r","t">>
Word_Appendix == <<"A","p","p","e","n","d","i","x">>

\* r'^\d+\.?\s+'
MatchNumbered(t) ==
    \E k \in 1..Len(t) :
        /\ \A i \in 1..k : IsDigit(t[i])
        /\ \/ (k + 1 <= Len(t) /\ IsSpace(t[k+1]))
           \/ (k + 2 <= Len(t) /\ t[k+1] = "." /\ IsSpace(t[k+2]))

\* r'^[A-Z][a-z]+'
MatchCapitalized(t) == Len(t) >= 2 /\ IsUpper(t[1]) /\ IsLower(t[2])

\* r'^[A-Z\s]+$'
MatchAllCaps(t) == Len(t) >= 1 /\ \A i \in 1..Len(t) : IsUpper(t[i]) \/ IsSpace(t[i])

\* r'^(Chapter|Section|Part|Appendix)'
MatchHeadingWord(t) ==
    \E w \in {Word_Chapter, Word_Section, Word_Part, Word_Appendix} : StartsWith(t, w)

MatchesHeadingPattern(t) ==
    MatchNumbered(t) \/ MatchCapitalized(t) \/ MatchAllCaps(t) \/ MatchHeadingWord(t)

\* the last statement of the size branch, `return True`, turned into `return False`
FallThroughBug == FALSE

FallThrough == TRUE

IsLikelyHeading(text, font_size, is_bold, mapping) ==
    IF font_size \in DOMAIN mapping
    THEN LET t == Strip(text)
         IN  IF Len(t) > MaxHeadingLen THEN FALSE
             ELSE IF MatchesHeadingPattern(t) THEN TRUE
             ELSE IF is_bold /\ BoldMinLen <= Len(t) /\ Len(t) <= BoldMaxLen THEN TRUE
             ELSE FallThrough
    ELSE FALSE

\* ------------------------------------------------------------ documents

(* What fitz exposes of one PDF file:
     openable    fitz.open(pdf_path) succeeds
     bad_page    index of a page whose loading/text extraction raises (0: none)
     meta_title  doc.metadata.get("title"): absent (None) or a string
     toc         doc.get_toc(): entries [level, title, page]
     pages       page.get_text("dict")["blocks"] of every page; a block is
                 [type, lines], a line [bbox_y, spans], a span [text, size, font, bbox_y] *)

Word_Bold == <<"B","o","l","d">>
Word_bold == <<"b","o","l","d">>

\* "Bold" in span["font"] or "bold" in span["font"].lower()
IsBoldFont(font) == Contains(font, Word_Bold) \/ Contains(Lower(font), Word_bold)

Str_Untitled ==
    <<"U","n","t","i","t","l","e","d"," ","D","o","c","u","m","e","n","t">>

Str_ProcessingError ==
    <<"P","r","o","c","e","s","s","i","n","g"," ","E","r","r","o","r">>

TitleMinLen == 3
TitleGoodLen == 10
HeadingMinLen == 3

\* f"H{min(level, 6)}" for a positive level
HName(n) == <<"H1","H2","H3","H4","H5","H6">>[n]

Min2(a, b) == IF a < b THEN a ELSE b
Max2(a, b) == IF a > b THEN a ELSE b

RECURSIVE ConcatAll(_)
ConcatAll(ss) == IF ss = <<>> THEN <<>> ELSE Head(ss) \o ConcatAll(Tail(ss))

\* ----------------------------------------------- extract_title_from_pdf

IsTextBlock(block) == block.type = 0

\* the lines of the text blocks of a page, in scan order
TextLines(page) ==
    ConcatAll([b \in 1..Len(page) |->
                 IF IsTextBlock(page[b]) THEN page[b].lines ELSE <<>>])

\* the spans of a line whose stripped text is not empty
LiveSpans(line) == SelectSeq(line.spans, LAMBDA sp : Strip(sp.text) # <<>>)

\* max(max_font_size, span["size"]) raises TypeError on a size that is no number
LineRaises(line) == \E i \in DOMAIN LiveSpans(line) : LiveSpans(line)[i].size.kind # "num"

RECURSIVE MaxFontSize(_)
MaxFontSize(spans) ==
    IF spans = <<>> THEN 0
    ELSE Max2(MaxFontSize(SubSeq(spans, 1, Len(spans) - 1)), spans[Len(spans)].size.val)

\* line_text: every live span's stripped text followed by " ", then stripped
LineText(line) ==
    LET live == LiveSpans(line)
    IN  Strip(ConcatAll([i \in 1..Len(live) |-> Strip(live[i].text) \o <<" ">>]))

Candidate(line) ==
    [text |-> LineText(line), font_size |-> MaxFontSize(LiveSpans(line)), y_pos |-> line.bbox_y]

\* key=lambda x: (x["y_pos"], -x["font_size"])
TitleKeyLessBug(a, b) ==
    \/ a.y_pos < b.y_pos
    \/ (a.y_pos = b.y_pos /\ a.font_size < b.font_size)

TitleKeyLess(a, b) ==
    \/ a.y_pos < b.y_pos
    \/ (a.y_pos = b.y_pos /\ a.font_size > b.font_size)

\* list.sort is stable: x goes before the first element whose key is greater
InsertCandidate(sorted, x) ==
    LET later == {i \in DOMAIN sorted : TitleKeyLess(x, sorted[i])}
        at == IF later = {} THEN Len(sorted) + 1 ELSE SetMin(later)
    IN  SubSeq(sorted, 1, at - 1) \o <<x>> \o SubSeq(sorted, at, Len(sorted))

RECURSIVE SortCandidates(_)
SortCandidates(cs) ==
    IF cs = <<>> THEN <<>>
    ELSE InsertCandidate(SortCandidates(SubSeq(cs, 1, Len(cs) - 1)), cs[Len(cs)])

TitleCandidates(page) ==
    LET lines == TextLines(page)
        all == [i \in 1..Len(lines) |-> Candidate(lines[i])]
    IN  SortCandidates(SelectSeq(all, LAMBDA c : c.text # <<>> /\ Len(c.text) > TitleMinLen))

Raised(closed) == [raised |-> TRUE, value |-> <<>>, closed |-> closed]
Returned(v, closed) == [raised |-> FALSE, value |-> v, closed |-> closed]

\* result of extract_title_from_pdf: raised/value, and whether doc.close() ran
ExtractTitle(d) ==
    IF ~d.openable THEN Raised(TRUE)
    ELSE IF d.meta_title.present /\ Strip(d.meta_title.text) # <<>>
    THEN Returned(Strip(d.meta_title.text), FALSE)
    ELSE IF Len(d.pages) > 0
    THEN IF d.bad_page = 1 THEN Raised(FALSE)
         ELSE IF \E i \in DOMAIN TextLines(d.pages[1]) : LineRaises(TextLines(d.pages[1])[i])
         THEN Raised(FALSE)
         ELSE LET cands == TitleCandidates(d.pages[1])
                  good == {i \in DOMAIN cands : Len(cands[i].text) >= TitleGoodLen}
              IN  IF good # {} THEN Returned(cands[SetMin(good)].text, FALSE)
                  ELSE IF cands # <<>> THEN Returned(cands[1].text, FALSE)
                  ELSE Returned(Str_Untitled, TRUE)
    ELSE Returned(Str_Untitled, TRUE)

\* --------------------------------------------- extract_outline_from_pdf

\* explicit tree: one entry per get_toc() item, in order
TocEntryBug(item) ==
    [level |-> HName(Min2(item.level, MaxHeadingLevels)),
     text |-> item.title,
     page |-> item.page]

TocEntry(item) ==
    [level |-> HName(Min2(item.level, MaxHeadingLevels)),
     text |-> Strip(item.title),
     page |-> item.page]

TocOutline(toc) == [i \in 1..Len(toc) |-> TocEntry(toc[i])]

\* the spans of one page that reach spans_data: text blocks only, blank spans skipped
PageSpans(page, page_num) ==
    LET lines == TextLines(page)
        spans == ConcatAll([i \in 1..Len(lines) |-> lines[i].spans])
        live == SelectSeq(spans, LAMBDA sp : Strip(sp.text) # <<>>)
    IN  [i \in 1..Len(live) |->
            [text |-> Strip(live[i].text),
             font_size |-> live[i].size,
             font_name |-> live[i].font,
             bold |-> IsBoldFont(live[i].font),
             page |-> page_num,
             y_pos |-> live[i].bbox_y]]

\* for page_num in range(len(doc)): pages are scanned first to last
ScanSpans(pages) == ConcatAll([k \in 1..Len(pages) |-> PageSpans(pages[k], k)])

\* heading_key = (text.lower(), span_info["page"]), taken before whitespace is normalised
HeadingKey(span) == <<Lower(Strip(span.text)), span.page>>

\* the loop over spans_data: acc = [out, src, seen], i the next span
RECURSIVE HeadingLoop(_, _, _, _)
HeadingLoop(spans, mapping, i, acc) ==
    IF i > Len(spans) THEN acc
    ELSE LET sp == spans[i]
             key == HeadingKey(sp)
             text == CollapseWs(Strip(sp.text))
         IN  IF ~IsLikelyHeading(sp.text, sp.font_size, sp.bold, mapping)
             THEN HeadingLoop(spans, mapping, i + 1, acc)
             ELSE IF key \in acc.seen
             THEN HeadingLoop(spans, mapping, i + 1, acc)
             ELSE IF Len(text) >= HeadingMinLen
             THEN HeadingLoop(spans, mapping, i + 1,
                    [out |-> Append(acc.out,
                                [level |-> mapping[sp.font_size], text |-> text, page |-> sp.page]),
                     src |-> Append(acc.src, i),
                     seen |-> acc.seen \cup {key}])
             ELSE HeadingLoop(spans, mapping, i + 1, [acc EXCEPT !.seen = @ \cup {key}])

\* the sort made unstable: an entry is put before the entries of its own page
InsertByPageBug(pages, order, k) ==
    LET later == {j \in DOMAIN order : pages[k] <= pages[order[j]]}
        at == IF later = {} THEN Len(order) + 1 ELSE SetMin(later)
    IN  SubSeq(order, 1, at - 1) \o <<k>> \o SubSeq(order, at, Len(order))

\* outline.sort(key=lambda x: x["page"]): stable; returns the permutation applied
InsertByPage(pages, order, k) ==
    LET later == {j \in DOMAIN order : pages[k] < pages[order[j]]}
        at == IF later = {} THEN Len(order) + 1 ELSE SetMin(later)
    IN  SubSeq(order, 1, at - 1) \o <<k>> \o SubSeq(order, at, Len(order))

RECURSIVE SortOrder(_, _)
SortOrder(pages, n) ==
    IF n = 0 THEN <<>> ELSE InsertByPage(pages, SortOrder(pages, n - 1), n)

SortByPage(out) == SortOrder([i \in 1..Len(out) |-> out[i].page], Len(out))

OutlineRaised(closed) ==
    [raised |-> TRUE, value |-> <<>>, src |-> <<>>, calls |-> {}, closed |-> closed]

\* result of extract_outline_from_pdf: raised/value, the get_toc() index or spans_data
\* index each entry comes from, the helpers invoked, and whether doc.close() ran
ExtractOutline(d) ==
    IF ~d.openable THEN OutlineRaised(TRUE)
    ELSE IF d.toc # <<>>
    THEN [raised |-> FALSE, value |-> TocOutline(d.toc),
          src |-> [i \in 1..Len(d.toc) |-> i], calls |-> {}, closed |-> TRUE]
    ELSE IF d.bad_page \in 1..Len(d.pages) THEN OutlineRaised(FALSE)
    ELSE IF DetectRaises(ScanSpans(d.pages)) THEN OutlineRaised(TRUE)
    ELSE LET spans == ScanSpans(d.pages)
             mapping == DetectHeadingLevels(spans)
             acc == HeadingLoop(spans, mapping, 1, [out |-> <<>>, src |-> <<>>, seen |-> {}])
             order == SortByPage(acc.out)
         IN  [raised |-> FALSE,
              value |-> [k \in 1..Len(order) |-> acc.out[order[k]]],
              src |-> [k \in 1..Len(order) |-> acc.src[order[k]]],
              calls |-> {"detect_heading_levels"} \cup
                        (IF spans = <<>> THEN {} ELSE {"is_likely_heading"}),
              closed |-> TRUE]

\* ------------------------------------------------------ input universes

T_AB == <<"A"," ","B">>
T_A2B == <<"A"," "," ","B">>
T_ab == <<"a"," ","b">>
T_short == <<"a","b">>
T_blank == <<" ">>
T_Head == <<"H","e","a","d">>
T_LongTitle == <<"L","o","n","g"," ","T","i","t","l","e">>
T_MyReport == <<" ","M","y"," ","R","e","p","o","r","t"," ">>

F_plain == <<"A","r","i","a","l">>
F_bold == <<"X","-","B","o","l","d">>
F_caps == <<"X","-","B","O","L","D">>

Sp(text, size, font, y) == [text |-> text, size |-> size, font |-> font, bbox_y |-> y]
TextBlock(y, spans) == [type |-> 0, lines |-> <<[bbox_y |-> y, spans |-> spans]>>]
ImageBlock == [type |-> 1, lines |-> <<>>]

Blocks ==
    { TextBlock(1, <<Sp(T_AB, Num(2), F_plain, 1)>>),
      TextBlock(1, <<Sp(T_A2B, Num(2), F_plain, 1)>>),
      TextBlock(0, <<Sp(T_ab, Num(1), F_bold, 0)>>),
      TextBlock(0, <<Sp(T_short, Num(1), F_plain, 0), Sp(T_LongTitle, Num(2), F_caps, 0)>>),
      TextBlock(0, <<Sp(T_LongTitle, Num(1), F_plain, 0)>>),
      TextBlock(2, <<Sp(T_Head, NoneSize, F_plain, 2)>>),
      TextBlock(1, <<Sp(T_Head, StrSize(1), F_plain, 1)>>),
      TextBlock(0, <<Sp(T_blank, NoneSize, F_plain, 0), Sp(T_Head, Num(0), F_plain, 0)>>),
      ImageBlock }

\* Most blocks of a generated document.
MaxBlocks == 2

\* Most entries of a generated explicit tree.
MaxToc == 2

SeqsUpTo(S, n) == UNION {[1..k -> S] : k \in 0..n}

\* a block sequence laid out on zero, one or two pages
Layouts(bs) ==
    {<<bs>>} \cup {<<SubSeq(bs, 1, k), SubSeq(bs, k + 1, Len(bs))>> : k \in 0..Len(bs)}
             \cup (IF bs = <<>> THEN {<<>>} ELSE {})

PageLayouts == UNION {Layouts(bs) : bs \in SeqsUpTo(Blocks, MaxBlocks)}

SamplePages ==
    { <<>>,
      << <<TextBlock(1, <<Sp(T_AB, Num(2), F_plain, 1)>>)>>,
         <<TextBlock(1, <<Sp(T_AB, Num(2), F_plain, 1)>>),
           TextBlock(2, <<Sp(T_Head, NoneSize, F_plain, 2)>>)>> >> }

NoMetaTitle == [present |-> FALSE, text |-> <<>>]
MetaTitles ==
    {NoMetaTitle, [present |-> TRUE, text |-> T_blank], [present |-> TRUE, text |-> T_MyReport]}

TocItems ==
    [level : {1, 6, 7}, title : {<<" ","A"," ">>, <<"B">>}, page : {1, 2}]

Tocs == SeqsUpTo(TocItems, MaxToc)

MkDoc(openable, bad_page, meta_title, toc, pages) ==
    [openable |-> openable, bad_page |-> bad_page, meta_title |-> meta_title,
     toc |-> toc, pages |-> pages]

Docs ==
    {MkDoc(TRUE, 0, NoMetaTitle, <<>>, ps) : ps \in PageLayouts}
    \cup {MkDoc(TRUE, 0, NoMetaTitle, t, ps) : t \in Tocs, ps \in SamplePages}
    \cup {MkDoc(o, b, m, t, ps) :
            o \in BOOLEAN, b \in 0..2, m \in MetaTitles,
            t \in {<<>>, <<[level |-> 1, title |-> <<"B">>, page |-> 1]>>},
            ps \in SamplePages}

NoDoc == MkDoc(FALSE, 0, NoMetaTitle, <<>>, <<>>)

\* --------------------------------------------------------------- state

NotRun == [done |-> FALSE, raised |-> FALSE, value |-> <<>>, closed |-> TRUE]
OutlineNotRun ==
    [done |-> FALSE, raised |-> FALSE, value |-> <<>>, src |-> <<>>, calls |-> {},
     closed |-> TRUE]

Done(result) == [done |-> TRUE] @@ result

Leak(result) == IF result.closed THEN 0 ELSE 1

NoArgs == [text |-> <<>>, font_size |-> NoneSize, is_bold |-> FALSE, level_mapping |-> EmptyMap]

IdleFunctions ==
    /\ spans_data = <<>>
    /\ level_mapping = EmptyMap
    /\ args = NoArgs
    /\ ret = FALSE

IdleDoc ==
    /\ doc = NoDoc
    /\ title = NotRun
    /\ outline = OutlineNotRun
    /\ open_handles = 0

NoMap == [x \in {} |-> FALSE]

IdleBatch ==
    /\ dir = NoMap
    /\ todo = {}
    /\ cur = <<>>
    /\ files = NoMap
    /\ emitted = NoMap
    /\ returned = NoMap
    /\ io_errors = {}
    /\ processed_count = 0
    /\ error_count = 0

\* ------------------------------------- detect_heading_levels, run alone

SizeUniverse == {Num(v) : v \in 0..MaxSize} \cup {NoneSize}

SpanInfo(size) ==
    [text |-> T_AB, font_size |-> size, font_name |-> F_plain, bold |-> FALSE,
     page |-> 1, y_pos |-> 0]

RECURSIVE ListOf(_)
ListOf(S) ==
    IF S = {} THEN <<>>
    ELSE LET m == CHOOSE x \in S : \A y \in S :
                     x.val < y.val \/ (x.val = y.val /\ (x.kind = "none" \/ x = y))
         IN  <<SpanInfo(m)>> \o ListOf(S \ {m})

Reverse(s) == [i \in 1..Len(s) |-> s[Len(s) + 1 - i]]

\* each set of sizes, listed ascending, descending, and with every size twice
SpanLists ==
    UNION {{ListOf(S), Reverse(ListOf(S)), ListOf(S) \o Reverse(ListOf(S))} :
             S \in SUBSET SizeUniverse}

InitLevels ==
    /\ pc = "levels_call"
    /\ spans_data \in SpanLists
    /\ level_mapping = EmptyMap
    /\ args = NoArgs
    /\ ret = FALSE
    /\ IdleDoc
    /\ IdleBatch

DetectStep ==
    /\ pc = "levels_call"
    /\ level_mapping' = IF DetectRaises(spans_data) THEN level_mapping
                        ELSE DetectHeadingLevels(spans_data)
    /\ pc' = IF DetectRaises(spans_data) THEN "levels_raised" ELSE "levels_done"
    /\ UNCHANGED <<spans_data, args, ret, doc, title, outline, open_handles, batch_vars>>

SpecLevels == InitLevels /\ [][DetectStep]_vars

\* ----------------------------------------- is_likely_heading, run alone

HeadingTexts ==
    { <<>>, T_short, T_AB, T_ab, <<"a","b","c","d","e">>,
      <<"1","."," ","a">>, <<"A","b">>, <<"-","x">>,
      Word_Chapter, Rep("a", MaxHeadingLen), Rep("a", MaxHeadingLen + 1),
      Rep("A", MaxHeadingLen + 1), <<" ">> \o Rep("a", MaxHeadingLen) \o <<" ">> }

KeySizes == {Num(v) : v \in 0..MaxKey}

LevelMaps == UNION {[S -> {"H1", "H6"}] : S \in SUBSET KeySizes}

InitHeading ==
    /\ pc = "heading_call"
    /\ args \in [text : HeadingTexts,
                 font_size : KeySizes \cup {Num(MaxKey + 1), NoneSize},
                 is_bold : BOOLEAN,
                 level_mapping : LevelMaps]
    /\ ret = FALSE
    /\ spans_data = <<>>
    /\ level_mapping = EmptyMap
    /\ IdleDoc
    /\ IdleBatch

HeadingStep ==
    /\ pc = "heading_call"
    /\ ret' = IsLikelyHeading(args.text, args.font_size, args.is_bold, args.level_mapping)
    /\ pc' = "heading_done"
    /\ UNCHANGED <<spans_data, level_mapping, args, doc, title, outline, open_handles, batch_vars>>

SpecHeading == InitHeading /\ [][HeadingStep]_vars

\* ------------------------------- the two extract_* functions on one doc

InitDoc ==
    /\ pc = "doc"
    /\ doc \in Docs
    /\ title = NotRun
    /\ outline = OutlineNotRun
    /\ open_handles = 0
    /\ IdleFunctions
    /\ IdleBatch

TitleStep ==
    /\ pc = "doc"
    /\ ~title.done
    /\ title' = Done(ExtractTitle(doc))
    /\ open_handles' = open_handles + Leak(ExtractTitle(doc))
    /\ UNCHANGED <<pc, fn_vars, doc, outline, batch_vars>>

OutlineStep ==
    /\ pc = "doc"
    /\ ~outline.done
    /\ outline' = Done(ExtractOutline(doc))
    /\ open_handles' = open_handles + Leak(ExtractOutline(doc))
    /\ UNCHANGED <<pc, fn_vars, doc, title, batch_vars>>

NextDoc == TitleStep \/ OutlineStep

SpecDoc == InitDoc /\ [][NextDoc]_vars

\* ----------------------------------- process_all_pdfs / process_single_pdf

Ext_pdf == <<".","p","d","f">>
Ext_json == <<".","j","s","o","n">>

\* str.replace(old, new): every non-overlapping occurrence, left to right
RECURSIVE Replace(_, _, _)
Replace(s, old, new) ==
    IF Len(s) < Len(old) THEN s
    ELSE IF StartsWith(s, old)
    THEN new \o Replace(SubSeq(s, Len(old) + 1, Len(s)), old, new)
    ELSE <<Head(s)>> \o Replace(Tail(s), old, new)

\* filename.lower().endswith(".pdf")
IsPdfName(filename) == EndsWith(Lower(filename), Ext_pdf)

\* filename.replace(".pdf", ".json"); os.path.join(output_dir, ...) is one-to-one
OutputName(filename) == Replace(filename, Ext_pdf, Ext_json)

FileNames ==
    { <<"a",".","p","d","f">>,
      <<"b",".","P","D","F">>,
      <<"a",".","p","d","f",".","p","d","f">>,
      <<"a",".","j","s","o","n",".","p","d","f">>,
      <<"n",".","t","x","t">> }

\* Most files of a generated input directory.
MaxFiles == 2

D_good ==
    MkDoc(TRUE, 0, NoMetaTitle, <<>>,
          << <<TextBlock(0, <<Sp(T_LongTitle, Num(1), F_plain, 0)>>)>> >>)
D_toc ==
    MkDoc(TRUE, 0, [present |-> TRUE, text |-> T_MyReport],
          <<[level |-> 7, title |-> <<"B">>, page |-> 2]>>, <<>>)
D_corrupt == MkDoc(FALSE, 0, NoMetaTitle, <<>>, <<>>)
D_badpage ==
    MkDoc(TRUE, 2, [present |-> TRUE, text |-> T_MyReport], <<>>,
          << <<TextBlock(1, <<Sp(T_AB, Num(2), F_plain, 1)>>)>>, <<>> >>)

BatchDocs == {D_good, D_toc, D_corrupt, D_badpage}

Dirs ==
    UNION {[names -> BatchDocs] :
             names \in {ns \in SUBSET FileNames : Cardinality(ns) <= MaxFiles}}

Absent == [state |-> "absent", data |-> <<>>]
Partial == [state |-> "partial", data |-> <<>>]
Complete(result) == [state |-> "complete", data |-> result]

\* output_data
OutputData == [title |-> title.value, outline |-> outline.value]

\* error_output with the title that was extracted kept in it
ErrorOutputBug ==
    [title |-> IF title.done /\ ~title.raised THEN title.value ELSE Str_ProcessingError,
     outline |-> <<>>]

\* error_output
ErrorOutput == [title |-> Str_ProcessingError, outline |-> <<>>]

\* an exception of the try block left uncaught
OnExceptionBug == "crashed"

\* `except Exception` of process_single_pdf
OnException == "except"

InitBatch ==
    /\ pc = "loop"
    /\ dir \in Dirs
    /\ todo = DOMAIN dir
    /\ cur = <<>>
    /\ files = [n \in {OutputName(f) : f \in FileNames} |-> Absent]
    /\ emitted = NoMap
    /\ returned = NoMap
    /\ io_errors = {}
    /\ processed_count = 0
    /\ error_count = 0
    /\ IdleFunctions
    /\ IdleDoc

\* a listed name that does not end in .pdf: continue
SkipFile ==
    /\ pc = "loop"
    /\ \E f \in todo :
         /\ ~IsPdfName(f)
         /\ todo' = todo \ {f}
    /\ UNCHANGED <<pc, fn_vars, doc, title, outline, open_handles, dir, cur, files,
                   emitted, returned, io_errors, processed_count, error_count>>

\* the next .pdf name: process_single_pdf(pdf_path, output_path) is entered
StartFile ==
    /\ pc = "loop"
    /\ \E f \in todo :
         /\ IsPdfName(f)
         /\ todo' = todo \ {f}
         /\ cur' = f
         /\ doc' = dir[f]
    /\ title' = NotRun
    /\ outline' = OutlineNotRun
    /\ pc' = "try"
    /\ UNCHANGED <<fn_vars, open_handles, dir, files, emitted, returned, io_errors,
                   processed_count, error_count>>

\* title = extract_title_from_pdf(...); outline = extract_outline_from_pdf(...)
Extract ==
    /\ pc = "try"
    /\ LET t == ExtractTitle(doc)
           o == ExtractOutline(doc)
       IN  /\ title' = Done(t)
           /\ IF t.raised
              THEN /\ outline' = outline
                   /\ open_handles' = open_handles + Leak(t)
                   /\ pc' = OnException
              ELSE /\ outline' = Done(o)
                   /\ open_handles' = open_handles + Leak(t) + Leak(o)
                   /\ pc' = IF o.raised THEN OnException ELSE "write"
    /\ UNCHANGED <<fn_vars, doc, batch_vars>>

\* open(output_path, "w") truncates the file
OpenOutput ==
    /\ pc \in {"write", "except"}
    /\ files' = [files EXCEPT ![OutputName(cur)] = Partial]
    /\ pc' = IF pc = "write" THEN "dump" ELSE "dump_error"
    /\ UNCHANGED <<fn_vars, doc, title, outline, open_handles, dir, todo, cur, emitted,
                   returned, io_errors, processed_count, error_count>>

\* open(output_path, "w") raises in the try block
OpenOutputFails ==
    /\ pc = "write"
    /\ io_errors' = io_errors \cup {cur}
    /\ pc' = OnException
    /\ UNCHANGED <<fn_vars, doc, title, outline, open_handles, dir, todo, cur, files,
                   emitted, returned, processed_count, error_count>>

\* json.dump(output_data, f) completes, the file is closed, return True
DumpOutput ==
    /\ pc = "dump"
    /\ files' = [files EXCEPT ![OutputName(cur)] = Complete(OutputData)]
    /\ emitted' = (cur :> OutputData) @@ emitted
    /\ returned' = (cur :> TRUE) @@ returned
    /\ processed_count' = processed_count + 1
    /\ pc' = "loop"
    /\ UNCHANGED <<fn_vars, doc, title, outline, open_handles, dir, todo, cur, io_errors,
                   error_count>>

\* json.dump raises part-way: what was written stays in the file
DumpOutputFails ==
    /\ pc = "dump"
    /\ io_errors' = io_errors \cup {cur}
    /\ pc' = OnException
    /\ UNCHANGED <<fn_vars, doc, title, outline, open_handles, dir, todo, cur, files,
                   emitted, returned, processed_count, error_count>>

\* json.dump(error_output, f) completes, the file is closed, return False
DumpError ==
    /\ pc = "dump_error"
    /\ files' = [files EXCEPT ![OutputName(cur)] = Complete(ErrorOutput)]
    /\ emitted' = (cur :> ErrorOutput) @@ emitted
    /\ returned' = (cur :> FALSE) @@ returned
    /\ error_count' = error_count + 1
    /\ pc' = "loop"
    /\ UNCHANGED <<fn_vars, doc, title, outline, open_handles, dir, todo, cur, io_errors,
                   processed_count>>

\* open() or json.dump() raises inside the except block: nothing catches it
ErrorWriteFails ==
    /\ pc \in {"except", "dump_error"}
    /\ io_errors' = io_errors \cup {cur}
    /\ pc' = "crashed"
    /\ UNCHANGED <<fn_vars, doc, title, outline, open_handles, dir, todo, cur, files,
                   emitted, returned, processed_count, error_count>>

\* os.listdir is exhausted: the summary is printed
Finish ==
    /\ pc = "loop"
    /\ todo = {}
    /\ pc' = "done"
    /\ UNCHANGED <<fn_vars, doc, title, outline, open_handles, batch_vars>>

\* the process is killed while a document is being processed
Cancel ==
    /\ pc \in {"try", "write", "dump", "except", "dump_error"}
    /\ pc' = "cancelled"
    /\ UNCHANGED <<fn_vars, doc, title, outline, open_handles, batch_vars>>

NextBatch ==
    \/ SkipFile
    \/ StartFile
    \/ Extract
    \/ OpenOutput
    \/ OpenOutputFails
    \/ DumpOutput
    \/ DumpOutputFails
    \/ DumpError
    \/ ErrorWriteFails
    \/ Finish
    \/ Cancel

SpecBatch == InitBatch /\ [][NextBatch]_vars

\* ============================================================== claims

\* C1: when get_toc() is non-empty, extract_outline_from_pdf returns one entry
\* per tree entry, in the tree's order, with level "H" + min(depth, 6), the
\* trimmed label and the entry's page; nothing is dropped, and neither
\* detect_heading_levels nor is_likely_heading is invoked.
C1_TocOutline ==
    (outline.done /\ doc.openable /\ doc.toc # <<>>) =>
        /\ ~outline.raised
        /\ Len(outline.value) = Len(doc.toc)
        /\ \A i \in 1..Len(doc.toc) :
             /\ outline.value[i].level =
                  HName(IF doc.toc[i].level < 6 THEN doc.toc[i].level ELSE 6)
             /\ outline.value[i].text = Strip(doc.toc[i].title)
             /\ outline.value[i].page = doc.toc[i].page
             /\ outline.src[i] = i
        /\ outline.calls \cap {"detect_heading_levels", "is_likely_heading"} = {}

\* a tree with a repeated entry deeper than 6, on a document that also has text runs
C1_Witness ==
    /\ outline.done
    /\ ~outline.raised
    /\ Len(doc.toc) = 2
    /\ doc.toc[1] = doc.toc[2]
    /\ doc.toc[1].level = 7
    /\ doc.toc[1].title # Strip(doc.toc[1].title)
    /\ doc.pages # <<>>
    /\ Len(outline.value) = 2

\* C2: in the heuristic path, no two outline entries carry the same normalized
\* text and the same page, while the same text on two pages gives two entries.
C2_HasEntry(text, page) ==
    \E a \in DOMAIN outline.value :
        /\ outline.value[a].page = page
        /\ Lower(outline.value[a].text) = Lower(CollapseWs(text))

C2_NoDuplicateEntries ==
    (outline.done /\ ~outline.raised /\ doc.toc = <<>>) =>
        /\ \A a, b \in DOMAIN outline.value :
             (a # b /\ outline.value[a].page = outline.value[b].page)
                 => outline.value[a].text # outline.value[b].text
        /\ LET spans == ScanSpans(doc.pages)
               heading(i) == /\ spans[i].font_size \in DOMAIN DetectHeadingLevels(spans)
                             /\ Len(spans[i].text) <= 200
                             /\ Len(CollapseWs(spans[i].text)) >= 3
           IN  \A i, j \in DOMAIN spans :
                 (/\ spans[i].text = spans[j].text
                  /\ spans[i].page # spans[j].page
                  /\ heading(i) /\ heading(j))
                     => /\ C2_HasEntry(spans[i].text, spans[i].page)
                        /\ C2_HasEntry(spans[j].text, spans[j].page)

\* C3: every returned outline, from the explicit tree or from the heuristic
\* path, is non-decreasing in page, and entries sharing a page are in scan order.
C3_PageOrder(v, src) ==
    \A a, b \in DOMAIN v :
        a < b => \/ v[a].page < v[b].page
                 \/ (v[a].page = v[b].page /\ src[a] < src[b])

C4_ObservedSizes ==
    {spans_data[i].font_size : i \in DOMAIN spans_data} \ {NoneSize}

C4_Rank(s) == 1 + Cardinality({t \in C4_ObservedSizes : t.val > s.val})

C4_LevelMap ==
    pc = "levels_done" =>
        /\ Cardinality(DOMAIN level_mapping) = Min2(Cardinality(C4_ObservedSizes), 6)
        /\ DOMAIN level_mapping = {s \in C4_ObservedSizes : C4_Rank(s) <= 6}
        /\ \A s \in DOMAIN level_mapping : level_mapping[s] = HName(C4_Rank(s))

\* C5: is_likely_heading is true exactly when the size is a key of the level
\* map and the trimmed text has at most 200 characters.
C5_HeadingIff ==
    pc = "heading_done" =>
        (ret <=> (/\ args.font_size \in DOMAIN args.level_mapping
                  /\ Len(Strip(args.text)) <= 200))

\* a mapped size, no pattern, not bold: accepted by the final return
C5_Witness ==
    /\ pc = "heading_done"
    /\ ret
    /\ ~args.is_bold
    /\ args.text = <<"-","x">>
    /\ args.font_size \in DOMAIN args.level_mapping

\* C6: the title fallback chain, which never fails.
C6_Lines(d) == IF Len(d.pages) > 0 THEN TextLines(d.pages[1]) ELSE <<>>

C6_Before(d, i, j) ==
    LET a == Candidate(C6_Lines(d)[i])
        b == Candidate(C6_Lines(d)[j])
    IN  \/ a.y_pos < b.y_pos
        \/ (a.y_pos = b.y_pos /\ a.font_size > b.font_size)
        \/ (a.y_pos = b.y_pos /\ a.font_size = b.font_size /\ i < j)

C6_First(d, S) == CHOOSE i \in S : \A j \in S \ {i} : C6_Before(d, i, j)

C6_ChainValue(d) ==
    LET cands == {i \in DOMAIN C6_Lines(d) : Len(LineText(C6_Lines(d)[i])) > 3}
        good == {i \in cands : Len(LineText(C6_Lines(d)[i])) >= 10}
    IN  IF d.meta_title.present /\ Strip(d.meta_title.text) # <<>>
        THEN Strip(d.meta_title.text)
        ELSE IF good # {} THEN LineText(C6_Lines(d)[C6_First(d, good)])
        ELSE IF cands # {} THEN LineText(C6_Lines(d)[C6_First(d, cands)])
        ELSE Str_Untitled

C6_ChainNeverFails ==
    title.done => (~title.raised /\ title.value = C6_ChainValue(doc))

\* C6 as amended: the call raises when the document cannot be opened, and, with
\* no usable metadata title, when the first page cannot be read or one of its
\* non-blank spans has a size that is no number; in every other case it
\* returns the value of the fallback chain.
C6_Fails(d) ==
    \/ ~d.openable
    \/ /\ ~(d.meta_title.present /\ Strip(d.meta_title.text) # <<>>)
       /\ Len(d.pages) > 0
       /\ \/ d.bad_page = 1
          \/ \E i \in DOMAIN C6_Lines(d) : \E k \in DOMAIN C6_Lines(d)[i].spans :
                /\ Strip(C6_Lines(d)[i].spans[k].text) # <<>>
                /\ C6_Lines(d)[i].spans[k].size.kind # "num"

C6_TitleChain ==
    title.done =>
        IF C6_Fails(doc) THEN title.raised
        ELSE ~title.raised /\ title.value = C6_ChainValue(doc)

\* no metadata title, two candidates at the same height: the larger font is
\* returned although it comes second in the page
C6_Witness ==
    /\ title.done
    /\ ~title.raised
    /\ ~doc.meta_title.present
    /\ Len(C6_Lines(doc)) = 2
    /\ Candidate(C6_Lines(doc)[1]).y_pos = Candidate(C6_Lines(doc)[2]).y_pos
    /\ Candidate(C6_Lines(doc)[1]).font_size < Candidate(C6_Lines(doc)[2]).font_size
    /\ title.value = LineText(C6_Lines(doc)[2])
    /\ Len(LineText(C6_Lines(doc)[1])) >= 10

\* C7: process_single_pdf emits the pair (title, outline) and returns true when
\* both extraction steps succeed, and emits exactly {"Processing Error", []} and
\* returns false when either fails.
C7_BothOk(d) == ~ExtractTitle(d).raised /\ ~ExtractOutline(d).raised

C7_Pair(d) == [title |-> ExtractTitle(d).value, outline |-> ExtractOutline(d).value]

C7_Sentinel == [title |-> Str_ProcessingError, outline |-> <<>>]

C8_Alone(d) == IF C7_BothOk(d) THEN C7_Pair(d) ELSE C7_Sentinel

C8_BatchIsolation ==
    /\ pc = "done" => \A f \in DOMAIN dir : IsPdfName(f) => f \in DOMAIN emitted
    /\ pc = "crashed" => cur \in io_errors
    /\ \A f \in DOMAIN emitted : f \notin io_errors => emitted[f] = C8_Alone(dir[f])
    /\ processed_count + error_count = Cardinality(DOMAIN returned)

\* a finished batch of a document that cannot be opened and one that can
C8_Witness ==
    /\ pc = "done"
    /\ io_errors = {}
    /\ \E f, g \in DOMAIN emitted :
         /\ dir[f] = D_corrupt
         /\ ~returned[f]
         /\ returned[g]
         /\ emitted[g] # C7_Sentinel
    /\ processed_count = 1
    /\ error_count = 1

\* C9: the file at output_path never holds a partially written result.
C9_AtomicOutput == \A n \in DOMAIN files : files[n].state \in {"absent", "complete"}

\* C10: two distinct accepted file names never share an output path, so no
\* result file is overwritten by another document's result.
C10_NoCollision ==
    \A f, g \in DOMAIN emitted : f # g => OutputName(f) # OutputName(g)

\* C11: a run whose font size is missing or is no number is treated as "size
\* not in map": its size is no key of the level map, it is never classified as
\* a heading, it does not make either extraction step fail (so the document's
\* result is not the "Processing Error" sentinel), and the outline is the one
\* the document gives when every such run carries no size.
C11_Malformed(size) == size.kind # "num"

C11_UnsizedSpan(sp) == IF C11_Malformed(sp.size) THEN [sp EXCEPT !.size = NoneSize] ELSE sp

C11_UnsizedLine(line) ==
    [line EXCEPT !.spans = [k \in DOMAIN line.spans |-> C11_UnsizedSpan(line.spans[k])]]

C11_UnsizedBlock(block) ==
    [block EXCEPT !.lines = [l \in DOMAIN block.lines |-> C11_UnsizedLine(block.lines[l])]]

C11_Unsized(d) ==
    [d EXCEPT !.pages =
        [p \in DOMAIN d.pages |->
            [b \in DOMAIN d.pages[p] |-> C11_UnsizedBlock(d.pages[p][b])]]]

C11_NoMapEntry ==
    (outline.done /\ ~outline.raised /\ doc.toc = <<>>) =>
        \A i \in DOMAIN ScanSpans(doc.pages) :
            C11_Malformed(ScanSpans(doc.pages)[i].font_size) =>
                ScanSpans(doc.pages)[i].font_size
                    \notin DOMAIN DetectHeadingLevels(ScanSpans(doc.pages))

C11_NeverHeading ==
    (outline.done /\ ~outline.raised /\ doc.toc = <<>>) =>
        \A k \in DOMAIN outline.src :
            ~C11_Malformed(ScanSpans(doc.pages)[outline.src[k]].font_size)

C11_NotFatal ==
    (doc.openable /\ doc.bad_page = 0) =>
        /\ title.done => ~title.raised
        /\ outline.done => ~outline.raised

C11_RestUnchanged ==
    (outline.done /\ doc.openable /\ doc.bad_page = 0) =>
        /\ outline.raised = ExtractOutline(C11_Unsized(doc)).raised
        /\ outline.value = ExtractOutline(C11_Unsized(doc)).value

\* C11: the four parts together
C11_MalformedRunTolerated ==
    /\ C11_NoMapEntry
    /\ C11_NeverHeading
    /\ C11_NotFatal
    /\ C11_RestUnchanged

\* C12: on every normal return of extract_title_from_pdf and of
\* extract_outline_from_pdf the handle the function opened has been closed, so
\* after a batch in which no extraction step raised no handle remains open.
C12_TitleClosed == (title.done /\ ~title.raised) => title.closed

C12_OutlineClosed == (outline.done /\ ~outline.raised) => outline.closed

C12_NoneRaised ==
    \A f \in DOMAIN dir :
        IsPdfName(f) => ~ExtractTitle(dir[f]).raised /\ ~ExtractOutline(dir[f]).raised

C12_NoHandleLeft == (pc = "done" /\ C12_NoneRaised) => open_handles = 0

\* C12: the three parts together
C12_HandlesReleased ==
    /\ C12_TitleClosed
    /\ C12_OutlineClosed
    /\ C12_NoHandleLeft

====
